---- MODULE Spec2Model ----
(***************************************************************************)
(* The five adversarial attacks of adversarial_ml/adversarial_attacks.py   *)
(* (Fgsm, OneStepLeastLikely, BasicIter, IterativeLeastLikely,             *)
(* RandomPlusFgsm) as a state machine.                                     *)
(*                                                                         *)
(* Numbers.  Pixels, eps and alpha are reals in the program.  They are     *)
(* modelled in exact fixed-point arithmetic: the integer n stands for the  *)
(* real n / Scale, so the program's literal 1 is Scale and its literal 0   *)
(* is 0.  Floating-point rounding is not modelled.                         *)
(*                                                                         *)
(* Tensors.  A batch holds one image, a function from its pixel positions  *)
(* 1..n to values; a label batch is one class index.  Spec runs batches    *)
(* of one and of two pixels, SpecCalls batches of one pixel.               *)
(*                                                                         *)
(* Classifier.  self.model is an external collaborator.  What the attacks  *)
(* read from it is the gradient of the loss w.r.t. the batch it was fed    *)
(* and (least-likely attacks) the argmin of its prediction.  Under Spec    *)
(* every answer of the classifier is arbitrary; under SpecCalls the        *)
(* classifier is one fixed function whose answers are remembered.          *)
(***************************************************************************)
EXTENDS Integers, FiniteSets, Sequences, TLC

VARIABLES
    self,          \* the attack object: its attributes
    constructed,   \* history: the attributes as __init__ left them
    clean_images,  \* argument of __call__
    true_labels,   \* argument of __call__ (NoClass: the least-likely attacks take none)
    pc,            \* position in __call__: "call", "loop", "done"
    X,             \* the running iterate / the returned batch
    i,             \* loop counter of the iterative attacks
    y_ll,          \* least-likely label batch of the least-likely attacks
    prediction,    \* least-likely attacks: argmin of the latest prediction batch
    loss_labels,   \* label batch of the latest call of self.loss_obj
    fed,           \* history: the batch most recently passed to self.model
    zero_grad,     \* history: pixel -> its gradient was 0 at every evaluation so far
    evals,         \* history: number of gradient evaluations of this invocation
    ll_clean,      \* history: argmin of the prediction on clean_images
    model,         \* SpecCalls: the answers the classifier has given so far
    returned,      \* SpecCalls history: attributes as constructed -> batch first returned
    repeat,        \* SpecCalls history: this invocation's attack had returned before
    attacks        \* SpecCalls: the attack objects the caller holds,
                   \*   attributes as constructed -> attributes now

vars == <<self, constructed, clean_images, true_labels, pc, X, i, y_ll,
          prediction, loss_labels, fed, zero_grad, evals, ll_clean, model, returned, repeat, attacks>>

----------------------------------------------------------------------------
(* Bounds *)

Scale == 2        \* grid units per 1.0
MaxEps == 2       \* largest eps in grid units
MaxIter == 2      \* largest num_iter

Shapes == {1, 2}                 \* numbers of pixels of a batch
Classes == {0, 1}                \* class indices
NoClass == Cardinality(Classes)  \* "no prediction yet": an index outside Classes
PixelValues == -1 .. Scale + 1   \* what a caller may pass: [0,1] and one unit outside
EpsValues == 0 .. MaxEps
AlphaValues == {-1, 0, 1, 2}      \* step sizes: negative, zero, below and above eps
IterValues == 0 .. MaxIter
GradValues == {-3, 0, 2}         \* gradient components: only their sign is read

Batches == UNION {[1 .. n -> PixelValues] : n \in Shapes}
OnePixelBatches == [1 .. 1 -> PixelValues]
\* the gradients w.r.t. a batch: tensors of the batch's shape
Gradients(batch) == [DOMAIN batch -> GradValues]
Unset == <<>>

Min(a, b) == IF a <= b THEN a ELSE b
Max(a, b) == IF a >= b THEN a ELSE b
Abs(a) == IF a >= 0 THEN a ELSE -a

----------------------------------------------------------------------------
(* Tensor operations *)

\* tf.sign, element-wise
sign(g) == [p \in DOMAIN g |-> IF g[p] > 0 THEN 1 ELSE IF g[p] < 0 THEN -1 ELSE 0]

ClipNoUpper(t, lo, hi) == [p \in DOMAIN t |-> Max(t[p], lo[p])]
\* tf.clip_by_value(t, lo, hi) = minimum(maximum(t, lo), hi), element-wise
clip_by_value(t, lo, hi) == [p \in DOMAIN t |-> Min(Max(t[p], lo[p]), hi[p])]

\* the scalar c broadcast to the shape of t
Broadcast(c, t) == [p \in DOMAIN t |-> c]

Plus(a, b) == [p \in DOMAIN a |-> a[p] + b[p]]
Minus(a, b) == [p \in DOMAIN a |-> a[p] - b[p]]
Times(c, a) == [p \in DOMAIN a |-> c * a[p]]

NoRangeClip(t) == t
\* the clip to the valid pixel range: tf.clip_by_value(X, 0, 1)
Clip01(t) == clip_by_value(t, Broadcast(0, t), Broadcast(Scale, t))

NoBallClip(t, clean, eps) == t
\* tf.clip_by_value(X, clean_images - self.eps, clean_images + self.eps)
BallClip(t, clean, eps) ==
    clip_by_value(t, Minus(clean, Broadcast(eps, t)), Plus(clean, Broadcast(eps, t)))

DoubledPerturbation(step, g) == Times(2 * step, sign(g))
StepOnZeroGradient(step, g) ==
    [p \in DOMAIN g |-> IF g[p] < 0 THEN -step ELSE step]
\* step size times signum of the gradients
Perturbation(step, g) == Times(step, sign(g))

----------------------------------------------------------------------------
(* Construction: AdversarialAttack.__init__ and the subclasses' __init__ *)

Fgsm(eps) ==
    [name |-> "FGSM", eps |-> eps,
     specifics |-> [text |-> "FGSM", eps |-> eps]]

OneStepLeastLikely(eps) ==
    [name |-> "One Step Least Likely (Step 1.1)", eps |-> eps,
     specifics |-> [text |-> "One Step Least Likely (Step 1.1)", eps |-> eps]]

BasicIter(eps, alpha, num_iter) ==
    [name |-> "Basic Iterative Method", eps |-> eps,
     alpha |-> alpha, num_iter |-> num_iter,
     specifics |-> [text |-> "Basic Iterative Method", eps |-> eps,
                    alpha |-> alpha, num_iter |-> num_iter]]

IterativeLeastLikely(eps, alpha, num_iter) ==
    [name |-> "Iterative Least Likely (Iter 1.1)", eps |-> eps,
     alpha |-> alpha, num_iter |-> num_iter,
     specifics |-> [text |-> "Iterative Least Likely (Iter 1.1)", eps |-> eps,
                    alpha |-> alpha, num_iter |-> num_iter]]

RandomPlusFgsm(eps, alpha) ==
    [name |-> "Random Plus FGSM", eps |-> eps, alpha |-> alpha,
     specifics |-> [text |-> "Random Plus FGSM", eps |-> eps, alpha |-> alpha]]

DeterministicAttacks ==
    {Fgsm(e) : e \in EpsValues}
    \cup {OneStepLeastLikely(e) : e \in EpsValues}
    \cup {BasicIter(e, a, n) : e \in EpsValues, a \in AlphaValues, n \in IterValues}
    \cup {IterativeLeastLikely(e, a, n) :
              e \in EpsValues, a \in AlphaValues, n \in IterValues}

Attacks ==
    DeterministicAttacks
    \cup {RandomPlusFgsm(e, a) : e \in EpsValues, a \in AlphaValues}

\* the label batches __call__ of s accepts
LabelBatches(s) ==
    IF s.name \in {"One Step Least Likely (Step 1.1)", "Iterative Least Likely (Iter 1.1)"}
    THEN {NoClass}
    ELSE Classes

EpsConsumed(s) == [s EXCEPT !.eps = Max(s.eps - 1, 0)]
\* no __call__ assigns an attribute of self
SelfAfterCall(s) == s

----------------------------------------------------------------------------
(* The arithmetic of each __call__ *)

FgsmDoubleStep(clean, eps, g) == Clip01(Plus(clean, DoubledPerturbation(eps, g)))
\* Fgsm.__call__: clip(clean_images + eps * sign(gradients), 0, 1)
FgsmExamples(clean, eps, g) == Clip01(Plus(clean, Perturbation(eps, g)))

\* OneStepLeastLikely.__call__: clip(clean_images - eps * sign(gradients), 0, 1)
OneStepLeastLikelyExamples(clean, eps, g) ==
    Clip01(Minus(clean, Perturbation(eps, g)))

BasicIterDescend(x, clean, eps, alpha, g) ==
    Clip01(BallClip(Minus(x, Perturbation(alpha, g)), clean, eps))
\* one pass of BasicIter's loop body
BasicIterUpdate(x, clean, eps, alpha, g) ==
    Clip01(BallClip(Plus(x, Perturbation(alpha, g)), clean, eps))

IterativeLeastLikelyUnprojected(x, clean, eps, alpha, g) ==
    Clip01(Minus(x, Perturbation(alpha, g)))
\* one pass of IterativeLeastLikely's loop body
IterativeLeastLikelyUpdate(x, clean, eps, alpha, g) ==
    Clip01(BallClip(Minus(x, Perturbation(alpha, g)), clean, eps))

RecomputedLabels(yll, pred) == pred
\* the label batch IterativeLeastLikely's loop passes to self.loss_obj:
\* y_ll, not the argmin of the prediction on the current iterate
IterativeLossLabels(yll, pred) == yll

\* tf.random.uniform draws u in [0, 1); r stands for 2 * eps * u on the grid
UniformScaled(eps) == IF eps = 0 THEN {0} ELSE 0 .. 2 * eps - 1

\* random_delta = 2 * eps * uniform - eps
RandomDelta(eps, r) == Minus(r, Broadcast(eps, r))

\* RandomPlusFgsm.__call__ after the gradient at x0 = clean_images + random_delta
RandomPlusFgsmExamples(x0, clean, eps, alpha, g) ==
    Clip01(BallClip(Plus(x0, Perturbation(alpha, g)), clean, eps))

----------------------------------------------------------------------------
(* State *)

NoAnswers == [argmin |-> <<>>, grad |-> <<>>]

\* the locals of __call__ before it runs
Entry ==
    /\ pc = "call"
    /\ X = Unset
    /\ i = 0
    /\ y_ll = NoClass
    /\ prediction = NoClass
    /\ loss_labels = NoClass
    /\ fed = <<>>
    /\ zero_grad = [p \in DOMAIN clean_images |-> TRUE]
    /\ evals = 0
    /\ ll_clean = NoClass

\* a fresh activation of __call__
Invoke ==
    /\ pc' = "call"
    /\ X' = Unset
    /\ i' = 0
    /\ y_ll' = NoClass
    /\ prediction' = NoClass
    /\ loss_labels' = NoClass
    /\ fed' = <<>>
    /\ zero_grad' = [p \in DOMAIN clean_images |-> TRUE]
    /\ evals' = 0
    /\ ll_clean' = NoClass

\* one invocation of any attack on any batch; the classifier answers freely
Init ==
    /\ self \in Attacks
    /\ constructed = self
    /\ clean_images \in Batches
    /\ true_labels \in LabelBatches(self)
    /\ Entry
    /\ model = NoAnswers
    /\ returned = <<>>
    /\ repeat = FALSE
    /\ attacks = (self :> self)

\* self.model(batch) followed by tape.gradient(loss, batch): g is the gradient
Evaluate(batch, g) ==
    /\ fed' = <<batch>>
    /\ zero_grad' = [p \in DOMAIN batch |-> zero_grad[p] /\ g[p] = 0]
    /\ evals' = evals + 1

Args == <<clean_images, true_labels, constructed>>
Kept == <<Args, ll_clean>>

----------------------------------------------------------------------------
(* Fgsm.__call__: g is the gradient *)
FgsmCall(g) ==
    /\ pc = "call"
    /\ self.name = "FGSM"
    /\ loss_labels' = true_labels
    /\ Evaluate(clean_images, g)
    /\ X' = FgsmExamples(clean_images, self.eps, g)
    /\ pc' = "done"
    /\ self' = SelfAfterCall(self)
    /\ UNCHANGED <<i, y_ll, prediction, Kept>>

(* OneStepLeastLikely.__call__ *)
OneStepLeastLikelyCall(g, c) ==
    /\ pc = "call"
    /\ self.name = "One Step Least Likely (Step 1.1)"
    /\ prediction' = c
    /\ ll_clean' = c
    /\ y_ll' = c
    /\ loss_labels' = c
    /\ Evaluate(clean_images, g)
    /\ X' = OneStepLeastLikelyExamples(clean_images, self.eps, g)
    /\ pc' = "done"
    /\ self' = SelfAfterCall(self)
    /\ UNCHANGED <<i, Args>>

(* BasicIter.__call__: X = clean_images, then the loop *)
BasicIterEnter ==
    /\ pc = "call"
    /\ self.name = "Basic Iterative Method"
    /\ X' = clean_images
    /\ i' = 0
    /\ pc' = "loop"
    /\ UNCHANGED <<self, y_ll, prediction, loss_labels, fed, zero_grad, evals, Kept>>

BasicIterBody(g) ==
    /\ pc = "loop"
    /\ self.name = "Basic Iterative Method"
    /\ i < self.num_iter
    /\ loss_labels' = true_labels
    /\ Evaluate(X, g)
    /\ X' = BasicIterUpdate(X, clean_images, self.eps, self.alpha, g)
    /\ i' = i + 1
    /\ UNCHANGED <<self, pc, y_ll, prediction, Kept>>

BasicIterReturn ==
    /\ pc = "loop"
    /\ self.name = "Basic Iterative Method"
    /\ i >= self.num_iter
    /\ pc' = "done"
    /\ self' = SelfAfterCall(self)
    /\ UNCHANGED <<X, i, y_ll, prediction, loss_labels, fed, zero_grad, evals, Kept>>

(* IterativeLeastLikely.__call__: y_ll from the clean batch, then the loop *)
IterativeLeastLikelyEnter(c) ==
    /\ pc = "call"
    /\ self.name = "Iterative Least Likely (Iter 1.1)"
    /\ fed' = <<clean_images>>
    /\ prediction' = c
    /\ ll_clean' = c
    /\ y_ll' = c
    /\ X' = clean_images
    /\ i' = 0
    /\ pc' = "loop"
    /\ UNCHANGED <<self, loss_labels, zero_grad, evals, Args>>

IterativeLeastLikelyBody(g, c) ==
    /\ pc = "loop"
    /\ self.name = "Iterative Least Likely (Iter 1.1)"
    /\ i < self.num_iter
    /\ prediction' = c
    /\ loss_labels' = IterativeLossLabels(y_ll, c)
    /\ Evaluate(X, g)
    /\ X' = IterativeLeastLikelyUpdate(X, clean_images, self.eps, self.alpha, g)
    /\ i' = i + 1
    /\ UNCHANGED <<self, pc, y_ll, Kept>>

IterativeLeastLikelyReturn ==
    /\ pc = "loop"
    /\ self.name = "Iterative Least Likely (Iter 1.1)"
    /\ i >= self.num_iter
    /\ pc' = "done"
    /\ self' = SelfAfterCall(self)
    /\ UNCHANGED <<X, i, y_ll, prediction, loss_labels, fed, zero_grad, evals, Kept>>

(* RandomPlusFgsm.__call__: r is the draw of tf.random.uniform, scaled *)
RandomPlusFgsmCall(r, g) ==
    /\ pc = "call"
    /\ self.name = "Random Plus FGSM"
    /\ LET x0 == Plus(clean_images, RandomDelta(self.eps, r))
       IN  /\ Evaluate(x0, g)
           /\ X' = RandomPlusFgsmExamples(x0, clean_images, self.eps, self.alpha, g)
    /\ loss_labels' = true_labels
    /\ pc' = "done"
    /\ self' = SelfAfterCall(self)
    /\ UNCHANGED <<i, y_ll, prediction, Kept>>

----------------------------------------------------------------------------
(* Spec: one invocation, any classifier answers *)

Next ==
    \/ \E g \in Gradients(clean_images) :
           FgsmCall(g) /\ UNCHANGED <<model, returned, repeat, attacks>>
    \/ \E g \in Gradients(clean_images), c \in Classes :
           OneStepLeastLikelyCall(g, c) /\ UNCHANGED <<model, returned, repeat, attacks>>
    \/ BasicIterEnter /\ UNCHANGED <<model, returned, repeat, attacks>>
    \/ \E g \in Gradients(clean_images) :
           BasicIterBody(g) /\ UNCHANGED <<model, returned, repeat, attacks>>
    \/ BasicIterReturn /\ UNCHANGED <<model, returned, repeat, attacks>>
    \/ \E c \in Classes :
           IterativeLeastLikelyEnter(c) /\ UNCHANGED <<model, returned, repeat, attacks>>
    \/ \E g \in Gradients(clean_images), c \in Classes :
           IterativeLeastLikelyBody(g, c) /\ UNCHANGED <<model, returned, repeat, attacks>>
    \/ IterativeLeastLikelyReturn /\ UNCHANGED <<model, returned, repeat, attacks>>
    \/ \E g \in Gradients(clean_images) :
           \E r \in [DOMAIN clean_images -> UniformScaled(self.eps)] :
               RandomPlusFgsmCall(r, g) /\ UNCHANGED <<model, returned, repeat, attacks>>

Spec == Init /\ [][Next]_vars

----------------------------------------------------------------------------
(* SpecCalls: a caller invoking attacks again and again on one batch, against *)
(* one classifier.  The classifier is a function: asked again about a batch   *)
(* (and label batch) it has been asked about, it gives the answer it gave.    *)

\* c is the classifier's argmin of its prediction on batch b
ArgminAnswer(b, c) == b \in DOMAIN model.argmin => c = model.argmin[b]

\* g is the classifier's gradient of loss(l, model(b)) w.r.t. b
GradAnswer(b, l, g) == <<b, l>> \in DOMAIN model.grad => g = model.grad[<<b, l>>]

Put(f, k, v) == IF k \in DOMAIN f THEN f ELSE f @@ (k :> v)

AnsweredArgmin(b, c) ==
    /\ ArgminAnswer(b, c)
    /\ model' = [model EXCEPT !.argmin = Put(@, b, c)]

AnsweredGrad(b, l, g) ==
    /\ GradAnswer(b, l, g)
    /\ model' = [model EXCEPT !.grad = Put(@, <<b, l>>, g)]

AnsweredBoth(b, c, l, g) ==
    /\ ArgminAnswer(b, c)
    /\ GradAnswer(b, l, g)
    /\ model' = [argmin |-> Put(model.argmin, b, c),
                 grad |-> Put(model.grad, <<b, l>>, g)]

\* history: the batch an invocation returns, kept the first time
Return ==
    /\ returned' = IF pc' = "done" /\ pc # "done"
                   THEN Put(returned, constructed, X')
                   ELSE returned
    /\ attacks' = [attacks EXCEPT ![constructed] = self']
    /\ UNCHANGED repeat

\* the attacks a caller binds to the same classifier next to s, for the same
\* arguments of __call__: one like s, and the single-step or iterative attack of
\* the same family and eps, the iterative one with the same alpha and
\* num_iter or, next to a single-step attack, one step of size eps
Alongside(s) ==
    LET a == IF "alpha" \in DOMAIN s THEN s.alpha ELSE s.eps
        n == IF "num_iter" \in DOMAIN s THEN s.num_iter ELSE 1
    IN  IF NoClass \in LabelBatches(s)
        THEN {OneStepLeastLikely(s.eps), IterativeLeastLikely(s.eps, a, n)}
        ELSE {Fgsm(s.eps), BasicIter(s.eps, a, n)}

InitCalls ==
    /\ self \in DeterministicAttacks
    /\ constructed = self
    /\ clean_images \in OnePixelBatches
    /\ true_labels \in LabelBatches(self)
    /\ Entry
    /\ model = NoAnswers
    /\ returned = <<>>
    /\ repeat = FALSE
    /\ attacks = (self :> self)

\* the caller invokes an attack object it holds, on the same batch
CallAgain(k) ==
    /\ pc = "done"
    /\ self' = attacks[k]
    /\ constructed' = k
    /\ Invoke
    /\ repeat' = (k \in DOMAIN returned)
    /\ UNCHANGED <<clean_images, true_labels, model, returned, attacks>>

\* the caller constructs an attack (one configured like one it holds, or
\* another one alongside) on the same classifier and invokes it on the batch
Construct(a) ==
    /\ pc = "done"
    /\ attacks' = [k \in DOMAIN attacks \cup {a} |-> IF k = a THEN a ELSE attacks[k]]
    /\ self' = a
    /\ constructed' = a
    /\ Invoke
    /\ repeat' = (a \in DOMAIN returned)
    /\ UNCHANGED <<clean_images, true_labels, model, returned>>

NextCalls ==
    \/ \E g \in Gradients(clean_images) :
           FgsmCall(g) /\ AnsweredGrad(clean_images, true_labels, g) /\ Return
    \/ \E g \in Gradients(clean_images), c \in Classes :
           /\ OneStepLeastLikelyCall(g, c)
           /\ AnsweredBoth(clean_images, c, c, g)
           /\ Return
    \/ BasicIterEnter /\ UNCHANGED <<model, returned, repeat, attacks>>
    \/ \E g \in Gradients(clean_images) :
           BasicIterBody(g) /\ AnsweredGrad(X, true_labels, g) /\ Return
    \/ BasicIterReturn /\ UNCHANGED model /\ Return
    \/ \E c \in Classes :
           /\ IterativeLeastLikelyEnter(c)
           /\ AnsweredArgmin(clean_images, c)
           /\ UNCHANGED <<returned, repeat, attacks>>
    \/ \E g \in Gradients(clean_images), c \in Classes :
           /\ IterativeLeastLikelyBody(g, c)
           /\ AnsweredBoth(X, c, loss_labels', g)
           /\ Return
    \/ IterativeLeastLikelyReturn /\ UNCHANGED model /\ Return
    \/ \E k \in DOMAIN attacks : CallAgain(k)
    \/ \E a \in Alongside(constructed) : Construct(a)

SpecCalls == InitCalls /\ [][NextCalls]_vars

----------------------------------------------------------------------------
(* Properties of one invocation (Spec) *)

NameBasicIter == "Basic Iterative Method"
NameIterLL == "Iterative Least Likely (Iter 1.1)"
NameRandom == "Random Plus FGSM"
NameOneStepLL == "One Step Least Likely (Step 1.1)"

InRange(b) == \A p \in DOMAIN b : 0 <= b[p] /\ b[p] <= Scale
WithinBall(b, clean, eps) == \A p \in DOMAIN b : Abs(b[p] - clean[p]) <= eps

\* valid input: every clean pixel in [0,1] (eps >= 0 throughout the model)
Pixels == DOMAIN clean_images
Valid == InRange(clean_images)
Iterative == self.name \in {NameBasicIter, NameIterLL}
InLoopOrDone == pc \in {"loop", "done"}

\* C1: for valid inputs every element of the batch an attack returns lies in
\* [0,1], for all five attacks, any alpha, any num_iter >= 0, any gradients.
C1_OutputInRange == (pc = "done" /\ Valid) => InRange(X)

\* a returned pixel that the final clip stopped at 1
C1_Witness ==
    /\ pc = "done" /\ Valid
    /\ \E p \in Pixels : /\ X[p] = Scale
                      /\ clean_images[p] < Scale
                      /\ ~zero_grad[p]
                      /\ Abs(clean_images[p] - Scale) < self.eps

\* C2: in BasicIter, IterativeLeastLikely and RandomPlusFgsm, for valid inputs,
\* the iterate at the end of every loop iteration and the returned batch are
\* within eps of the clean batch and within [0,1].
C2_BallAndRange ==
    (Valid /\ self.name \in {NameBasicIter, NameIterLL, NameRandom} /\ InLoopOrDone)
        => (WithinBall(X, clean_images, self.eps) /\ InRange(X))

\* a step larger than eps: one pixel stopped by the ball clip at distance eps,
\* another stopped by the range clip at 1
C2_Witness ==
    /\ Valid /\ self.name = NameBasicIter /\ pc = "loop" /\ i = 1
    /\ self.alpha > self.eps /\ self.eps > 0
    /\ \E p \in Pixels : X[p] - clean_images[p] = self.eps
    /\ \E p \in Pixels : X[p] = Scale /\ clean_images[p] = Scale /\ ~zero_grad[p]

\* C3: for Fgsm and OneStepLeastLikely, for valid inputs, the returned batch is
\* within eps of the clean batch although no clip to the eps-ball is made.
C3_SingleStepBall ==
    (pc = "done" /\ Valid /\ self.name \in {"FGSM", NameOneStepLL})
        => WithinBall(X, clean_images, self.eps)

\* Fgsm moved a pixel by exactly eps > 0
C3_Witness ==
    /\ pc = "done" /\ Valid /\ self.name = "FGSM" /\ self.eps > 0
    /\ \E p \in Pixels : X[p] - clean_images[p] = self.eps

\* C4 as stated: with eps = 0 every attack returns the clean batch clipped
\* to [0,1], whatever alpha, num_iter, labels, gradients and image batch.
C4_AsStated == (pc = "done" /\ self.eps = 0) => X = Clip01(clean_images)

\* C4 amended: with eps = 0 the returned batch equals the clean batch clipped
\* to [0,1] provided the image batch is valid or the attack runs its clips at
\* least once (a single-step attack, or num_iter >= 1); BasicIter and
\* IterativeLeastLikely with num_iter = 0 return the batch as passed.
C4_ZeroEps ==
    (pc = "done" /\ self.eps = 0)
        => /\ (Valid \/ ~Iterative \/ self.num_iter >= 1) => X = Clip01(clean_images)
           /\ (Iterative /\ self.num_iter = 0) => X = clean_images

\* eps = 0, a non-zero step on a non-zero gradient, an out-of-range pixel clipped
C4_Witness ==
    /\ pc = "done" /\ self.eps = 0 /\ Iterative /\ self.num_iter >= 1
    /\ self.alpha # 0
    /\ \E p \in Pixels : ~zero_grad[p]
    /\ ~Valid /\ X = Clip01(clean_images)

\* C6 as stated: in every attack, RandomPlusFgsm included, a pixel whose
\* gradient is zero at every evaluation is returned equal to the clean pixel.
C6_AsStated ==
    (pc = "done" /\ Valid) => \A p \in Pixels : zero_grad[p] => X[p] = clean_images[p]

\* C6 amended: for valid inputs a pixel whose gradient is zero at every
\* evaluation is returned equal to the clean pixel by Fgsm, OneStepLeastLikely,
\* BasicIter and IterativeLeastLikely; RandomPlusFgsm returns it as
\* clip(clean pixel + random delta, 0, 1), within eps of the clean pixel.
C6_ZeroGradient ==
    (pc = "done" /\ Valid) =>
        \A p \in Pixels : zero_grad[p] =>
            IF self.name = NameRandom
            THEN /\ X[p] = Clip01(fed[1])[p]
                 /\ Abs(X[p] - clean_images[p]) <= self.eps
            ELSE X[p] = clean_images[p]

\* two iterations moved one pixel while the other, with zero gradient, stayed
C6_Witness ==
    /\ pc = "done" /\ Valid /\ Iterative /\ evals >= 2
    /\ \E p, q \in Pixels : /\ zero_grad[p] /\ X[p] = clean_images[p]
                         /\ ~zero_grad[q] /\ X[q] # clean_images[q]

\* C7: IterativeLeastLikely computes y_ll once, before the loop, as the argmin
\* of the prediction on the clean batch, and every iteration's loss uses it,
\* even when the argmin of the prediction on the current iterate differs.
C7_FixedTarget ==
    (self.name = NameIterLL /\ InLoopOrDone)
        => /\ y_ll = ll_clean
           /\ ll_clean \in Classes
           /\ evals >= 1 => loss_labels = ll_clean

\* second iteration: the iterate moved, its least-likely class differs from y_ll
C7_Witness ==
    /\ self.name = NameIterLL /\ evals >= 2
    /\ fed[1] # clean_images
    /\ prediction # ll_clean
    /\ loss_labels = ll_clean

\* C8 as stated: for valid inputs every batch passed to the classifier lies in
\* [0,1], RandomPlusFgsm's clean_images + random_delta included.
C8_AsStated == (Valid /\ fed # <<>>) => InRange(fed[1])

\* C8 amended: for valid inputs every batch Fgsm, OneStepLeastLikely, BasicIter
\* and IterativeLeastLikely pass to the classifier lies in [0,1]; the batch
\* RandomPlusFgsm passes lies within eps of the clean batch, so in
\* [-eps, 1 + eps], and is not clipped to [0,1] first.
C8_FedBatches ==
    (Valid /\ fed # <<>>) =>
        IF self.name = NameRandom
        THEN WithinBall(fed[1], clean_images, self.eps)
        ELSE InRange(fed[1])

\* an iterate other than the clean batch, stopped at the range, was fed
C8_Witness ==
    /\ Valid /\ Iterative /\ evals >= 2
    /\ fed[1] # clean_images
    /\ \E p \in Pixels : fed[1][p] = Scale /\ clean_images[p] < Scale

\* C10: in BasicIter and IterativeLeastLikely, for valid inputs and alpha >= 0,
\* one iteration changes each pixel by at most alpha, and after k iterations
\* the iterate is within min(eps, k * alpha) of the clean batch.
C10_StepBound ==
    (Valid /\ Iterative /\ InLoopOrDone /\ self.alpha >= 0) =>
        /\ fed # <<>> => WithinBall(X, fed[1], self.alpha)
        /\ WithinBall(X, clean_images, Min(self.eps, i * self.alpha))

\* two steps of alpha carried a pixel 2 * alpha away, still inside the ball
C10_Witness ==
    /\ Valid /\ Iterative /\ i = 2 /\ self.alpha = 1 /\ self.eps >= 2
    /\ \E p \in Pixels : Abs(X[p] - clean_images[p]) = 2
    /\ \E p \in Pixels : Abs(X[p] - fed[1][p]) = 1

----------------------------------------------------------------------------
(* Properties of repeated invocations (SpecCalls) *)

\* C5: Fgsm, OneStepLeastLikely, BasicIter and IterativeLeastLikely are
\* deterministic and stateless: an invocation returns the batch that the
\* first invocation of an identically configured attack (the same instance
\* or another one) returned for the same classifier, batch and labels,
\* whatever invocations came in between, and no invocation changes an
\* attribute of the attack.
C5_Deterministic ==
    /\ self = constructed
    /\ (pc = "done" /\ constructed \in DOMAIN returned) => X = returned[constructed]

\* a repeated two-iteration invocation returned, having moved the batch
C5_Witness ==
    /\ pc = "done" /\ repeat /\ Iterative /\ evals >= 2
    /\ X # clean_images
    /\ Cardinality(DOMAIN returned) >= 2
    /\ X = returned[constructed]

\* C9: BasicIter with num_iter = 1 and alpha = eps returns the batch Fgsm with
\* the same eps returns, and IterativeLeastLikely with num_iter = 1 and
\* alpha = eps the batch OneStepLeastLikely with the same eps returns.
C9_Reduction ==
    \A e \in EpsValues :
        /\ (Fgsm(e) \in DOMAIN returned /\ BasicIter(e, e, 1) \in DOMAIN returned)
               => returned[BasicIter(e, e, 1)] = returned[Fgsm(e)]
        /\ (OneStepLeastLikely(e) \in DOMAIN returned
                /\ IterativeLeastLikely(e, e, 1) \in DOMAIN returned)
               => returned[IterativeLeastLikely(e, e, 1)]
                      = returned[OneStepLeastLikely(e)]

\* both attacks of a pair have returned, and moved the batch
C9_Witness ==
    \E e \in EpsValues :
        /\ OneStepLeastLikely(e) \in DOMAIN returned
        /\ IterativeLeastLikely(e, e, 1) \in DOMAIN returned
        /\ returned[IterativeLeastLikely(e, e, 1)] # clean_images
        /\ pc = "done"

====
